---- MODULE Spec2Model ----
(***************************************************************************)
(* Model of the pakr-assert-size procedural macros (src/src/lib.rs).       *)
(*                                                                         *)
(* The two attribute macros assert_size and assert_size_fits take the      *)
(* attribute's argument tokens and the annotated item's tokens, parse the  *)
(* argument as ExpSize (one integer literal read as usize), parse the item *)
(* as a syn::ItemStruct, and return a token stream holding                 *)
(*   const _: () = assert!(std::mem::size_of::<Id>() OP size, message);    *)
(* followed by the re-printed structure.  A parse failure returns the      *)
(* error as a compile_error! invocation instead (parse_macro_input!).      *)
(* The compiler then compiles what the macro returned.                     *)
(***************************************************************************)
EXTENDS Integers, Sequences, FiniteSets, TLC

\* ------------------------------------------------------------------ bounds
\* Width of the host's usize, scaled down (lib.rs:9 declares size: usize).
UsizeBits == 6
\* Longest attribute argument token stream that is enumerated.
MaxAttrLen == 2
\* Most primitive fields an enumerated structure declares.
MaxFields == 3
\* Most attribute expansions compiled into one scope.
MaxExpansions == 2

UsizeMax == 2 ^ UsizeBits - 1

\* ------------------------------------------------------------ decimal text
Digit(d) == <<"0", "1", "2", "3", "4", "5", "6", "7", "8", "9">>[d + 1]

RECURSIVE ToDec(_)
\* Display of an unsigned integer, as format!("{}", size) prints it.
ToDec(n) == IF n < 10 THEN Digit(n) ELSE ToDec(n \div 10) \o Digit(n % 10)

RECURSIVE ToDigits(_)
\* The decimal digits of n, most significant first (a literal's base10_digits).
ToDigits(n) == IF n < 10 THEN <<n>> ELSE Append(ToDigits(n \div 10), n % 10)

\* --------------------------------------------------- attribute argument tokens
IntLit(ds, sfx) == [kind |-> "int", digits |-> ds, suffix |-> sfx]
Minus  == [kind |-> "minus", digits |-> <<>>, suffix |-> ""]
Comma  == [kind |-> "comma", digits |-> <<>>, suffix |-> ""]
StrLit == [kind |-> "str", digits |-> <<1, 6>>, suffix |-> ""]

\* Type suffixes an integer literal token may carry ("" is unsuffixed).
Suffixes == {"", "usize", "u8"}

\* Literal values: the doctests' 16 and 24 (lib.rs:44, 56), zero, and the
\* two values around the top of usize.
LitValues == {0, 16, 24, UsizeMax, UsizeMax + 1}

AttrTokens ==
    {IntLit(ToDigits(v), s) : v \in LitValues, s \in Suffixes}
        \cup {Minus, Comma, StrLit}

RECURSIVE SeqsUpTo(_, _)
\* All sequences over S of length at most n.
SeqsUpTo(S, n) ==
    IF n = 0 THEN {<<>>}
    ELSE LET shorter == SeqsUpTo(S, n - 1)
         IN  shorter \cup {Append(q, t) : q \in {r \in shorter : Len(r) = n - 1}, t \in S}

Rest(q, k) == SubSeq(q, k + 1, Len(q))

\* ------------------------------------------------------------ ExpSize::parse
NoSize == -1

\* input.parse::<LitInt>(): one integer literal token, or a minus sign
\* directly followed by one (syn folds the sign into the literal's digits).
ParseLitInt(tokens) ==
    IF tokens = <<>>
    THEN [ok |-> FALSE, neg |-> FALSE, digits |-> <<>>, suffix |-> "", rest |-> tokens,
          err |-> "unexpected end of input, expected integer literal"]
    ELSE IF tokens[1].kind = "int"
    THEN [ok |-> TRUE, neg |-> FALSE, digits |-> tokens[1].digits,
          suffix |-> tokens[1].suffix, rest |-> Rest(tokens, 1), err |-> ""]
    ELSE IF tokens[1].kind = "minus" /\ Len(tokens) >= 2 /\ tokens[2].kind = "int"
    THEN [ok |-> TRUE, neg |-> TRUE, digits |-> tokens[2].digits,
          suffix |-> tokens[2].suffix, rest |-> Rest(tokens, 2), err |-> ""]
    ELSE [ok |-> FALSE, neg |-> FALSE, digits |-> <<>>, suffix |-> "", rest |-> tokens,
          err |-> "expected integer literal"]

RECURSIVE UsizeFromDigits(_, _)
\* str::parse::<usize> on a digit string: checked multiply-and-add, NoSize
\* as soon as the accumulator leaves the usize range.
UsizeFromDigits(ds, acc) ==
    IF ds = <<>> THEN acc
    ELSE IF acc * 10 + Head(ds) > UsizeMax THEN NoSize
    ELSE UsizeFromDigits(Tail(ds), acc * 10 + Head(ds))

\* LitInt::base10_parse::<usize>(): parses base10_digits() alone; the
\* literal's suffix takes no part.
Base10Parse(lit) ==
    LET v == UsizeFromDigits(lit.digits, 0)
    IN  IF lit.neg THEN [ok |-> FALSE, value |-> NoSize, err |-> "invalid digit found in string"]
        ELSE IF v = NoSize
        THEN [ok |-> FALSE, value |-> NoSize, err |-> "number too large to fit in target type"]
        ELSE [ok |-> TRUE, value |-> v, err |-> ""]

\* impl Parse for ExpSize (lib.rs:12-17): both `?` return the error.
ExpSizeParse(tokens) ==
    LET lit == ParseLitInt(tokens)
        num == Base10Parse(lit)
    IN  IF ~lit.ok THEN [ok |-> FALSE, size |-> NoSize, rest |-> lit.rest, err |-> lit.err]
        ELSE IF ~num.ok THEN [ok |-> FALSE, size |-> NoSize, rest |-> lit.rest, err |-> num.err]
        ELSE [ok |-> TRUE, size |-> num.value, rest |-> lit.rest, err |-> ""]

\* Variant: ExpSize::parse alone, leftover tokens not looked at.
ParseAttrLenient(tokens) ==
    LET r == ExpSizeParse(tokens)
    IN  [ok |-> r.ok, size |-> r.size, err |-> r.err]

\* parse_macro_input!(attr as ExpSize) (lib.rs:79, 152): ExpSize::parse on
\* the whole stream; tokens left over after it are an error.
ParseAttr(tokens) ==
    LET r == ExpSizeParse(tokens)
    IN  IF ~r.ok THEN [ok |-> FALSE, size |-> NoSize, err |-> r.err]
        ELSE IF r.rest # <<>> THEN [ok |-> FALSE, size |-> NoSize, err |-> "unexpected token"]
        ELSE [ok |-> TRUE, size |-> r.size, err |-> ""]

\* ------------------------------------------------------ annotated item tokens
ItemTok(k, t)  == [kind |-> k, text |-> t, types |-> <<>>]
Packed         == ItemTok("attr", "#[repr(C, packed)]")
ReprC          == ItemTok("attr", "#[repr(C)]")
Doc            == ItemTok("attr", "#[doc]")
Pub            == ItemTok("vis", "pub")
Keyword(k)     == ItemTok("keyword", k)
Ident(n)       == ItemTok("ident", n)
TypeParam      == ItemTok("generics", "<T>")
LifetimeParam  == ItemTok("generics", "<'a>")
ConstParam     == ItemTok("generics", "<const N: usize>")
Braces(ts)     == [kind |-> "braces", text |-> "", types |-> ts]

\* A type or lifetime parameter must be used by a field; a const parameter
\* need not be.  The marker fields are zero-sized.
MarkerFields(gen) ==
    IF gen = <<TypeParam>> THEN <<"PhantomData<T>">>
    ELSE IF gen = <<LifetimeParam>> THEN <<"PhantomData<&'a u8>">>
    ELSE <<>>

Item(kind, attrs, vis, name, gen, prims) ==
    attrs \o vis \o <<Keyword(kind), Ident(name)>> \o gen
          \o <<Braces(prims \o MarkerFields(gen))>>

ItemKinds    == {"struct", "enum"}
AttrLists    == {<<>>, <<Packed>>, <<Doc, ReprC>>}
Visibilities == {<<>>, <<Pub>>}
Names        == {"A", "C"}
GenericLists == {<<>>, <<TypeParam>>, <<LifetimeParam>>, <<ConstParam>>}
PrimTypes    == {"u8", "u64"}

RichItems ==
    {Item(k, a, v, n, g, f) : k \in ItemKinds, a \in AttrLists, v \in Visibilities,
                              n \in Names, g \in GenericLists,
                              f \in SeqsUpTo(PrimTypes, MaxFields)}

\* struct A of the doctests (lib.rs:43-48), an enumeration, a generic structure.
FewItems ==
    {Item("struct", <<Packed>>, <<>>, "A", <<>>, <<"u64", "u64">>),
     Item("enum", <<>>, <<>>, "A", <<>>, <<"u64", "u64">>),
     Item("struct", <<Packed>>, <<Pub>>, "C", <<TypeParam>>, <<"u64", "u64">>)}

RichAttrs == SeqsUpTo(AttrTokens, MaxAttrLen)

\* The doctests' arguments (lib.rs:44, 56, 69), zero, no argument, a string.
FewAttrs ==
    {<<IntLit(ToDigits(v), "")>> : v \in {0, 16, 24, 32}} \cup {<<>>, <<StrLit>>}

\* The (attr, item) pairs an invocation is given.
Inputs == (RichAttrs \X FewItems) \cup (FewAttrs \X RichItems)

\* -------------------------------------------------- syn::ItemStruct parse/print
NoStruct ==
    [ok |-> FALSE, attrs |-> <<>>, vis |-> <<>>, ident |-> "", generics |-> <<>>,
     fields |-> <<>>, err |-> ""]

RECURSIVE TakeWhileKind(_, _)
\* The longest prefix of tokens all of the given kind.
TakeWhileKind(tokens, k) ==
    IF tokens # <<>> /\ Head(tokens).kind = k
    THEN <<Head(tokens)>> \o TakeWhileKind(Tail(tokens), k)
    ELSE <<>>

OptKind(tokens, k) ==
    IF tokens # <<>> /\ Head(tokens).kind = k THEN <<Head(tokens)>> ELSE <<>>

\* Variant: the keyword is not looked at.
ParseAnyItem(tokens) ==
    LET attrs == TakeWhileKind(tokens, "attr")
        r1    == Rest(tokens, Len(attrs))
        vis   == OptKind(r1, "vis")
        r2    == Rest(r1, Len(vis))
        r3    == Rest(r2, 2)
        gen   == OptKind(r3, "generics")
        r4    == Rest(r3, Len(gen))
    IN  [ok |-> TRUE, attrs |-> attrs, vis |-> vis, ident |-> r2[2].text,
         generics |-> gen, fields |-> r4[1].types, err |-> ""]

\* impl Parse for ItemStruct: outer attributes, visibility, the struct
\* keyword (an error if the item starts otherwise), name, generics, fields.
ParseItemStruct(tokens) ==
    LET attrs == TakeWhileKind(tokens, "attr")
        r1    == Rest(tokens, Len(attrs))
        vis   == OptKind(r1, "vis")
        r2    == Rest(r1, Len(vis))
        r3    == Rest(r2, 2)
        gen   == OptKind(r3, "generics")
        r4    == Rest(r3, Len(gen))
    IN  IF r2 = <<>> \/ r2[1] # Keyword("struct")
        THEN [NoStruct EXCEPT !.err = "expected struct"]
        ELSE [ok |-> TRUE, attrs |-> attrs, vis |-> vis, ident |-> r2[2].text,
              generics |-> gen, fields |-> r4[1].types, err |-> ""]

\* Variant: attributes and visibility are not printed.
StructToTokensBare(st) ==
    <<Keyword("struct"), Ident(st.ident)>> \o st.generics \o <<Braces(st.fields)>>

\* impl ToTokens for ItemStruct, as #struct_item interpolates it
\* (lib.rs:89, 162).
StructToTokens(st) ==
    st.attrs \o st.vis \o <<Keyword("struct"), Ident(st.ident)>> \o st.generics
             \o <<Braces(st.fields)>>

\* ------------------------------------------------------------- emitted tokens
\* Variant: the text is built from another value than the one compared.
SizeMessageOffByOne(id, n) == "size of '" \o id \o "' is not " \o ToDec(n + 1) \o " bytes"

\* format!("size of '{}' is not {} bytes", id, size) (lib.rs:85).
SizeMessage(id, n) == "size of '" \o id \o "' is not " \o ToDec(n) \o " bytes"

\* format!("'{}' does not fit in {} bytes", id, size) (lib.rs:158).
FitsMessage(id, n) == "'" \o id \o "' does not fit in " \o ToDec(n) \o " bytes"

\* Variant: a named constant.
NamedBinding == "_ASSERT_SIZE"

\* The name the emitted constant is bound to: `const _` (lib.rs:88, 161).
CheckBinding == "_"

\* const <binding>: () = assert!(std::mem::size_of::<ty>() <op> <rhs>, <message>);
ConstAssert(ty, op, rhs, msg) ==
    [kind |-> "const_assert", binding |-> CheckBinding, ty |-> ty, op |-> op,
     rhs |-> rhs, message |-> msg]

\* What parse_macro_input! returns on Err: err.to_compile_error(), spanned
\* on the tokens that failed to parse.
CompileError(span, msg) == [kind |-> "compile_error", span |-> span, text |-> msg]

\* quote! { const _ ... == #size ...; #struct_item } (lib.rs:87-90).
AssertSizeQuote(st, n) ==
    <<ConstAssert(st.ident, "==", n, SizeMessage(st.ident, n))>> \o StructToTokens(st)

\* quote! { const _ ... <= #size ...; #struct_item } (lib.rs:160-163).
AssertSizeFitsQuote(st, n) ==
    <<ConstAssert(st.ident, "<=", n, FitsMessage(st.ident, n))>> \o StructToTokens(st)

\* ------------------------------------------------- the compiler on the output
FieldSize(t)  == IF t = "u8" THEN 1 ELSE IF t = "u64" THEN 8 ELSE 0
FieldAlign(t) == IF t = "u64" THEN 8 ELSE 1

RoundUp(n, a) == ((n + a - 1) \div a) * a

RECURSIVE SumSizes(_)
SumSizes(ts) == IF ts = <<>> THEN 0 ELSE FieldSize(Head(ts)) + SumSizes(Tail(ts))

RECURSIVE MaxAlign(_)
MaxAlign(ts) ==
    IF ts = <<>> THEN 1
    ELSE LET m == MaxAlign(Tail(ts))
         IN  IF FieldAlign(Head(ts)) > m THEN FieldAlign(Head(ts)) ELSE m

RECURSIVE CEnd(_, _)
\* End offset of the last field when fields are laid out in order, each at
\* the next multiple of its alignment.
CEnd(ts, off) ==
    IF ts = <<>> THEN off
    ELSE CEnd(Tail(ts), RoundUp(off, FieldAlign(Head(ts))) + FieldSize(Head(ts)))

HasAttr(attrs, a) == \E i \in 1 .. Len(attrs) : attrs[i] = a

\* std::mem::size_of of a structure with these attributes and field types:
\* packed has no padding; repr(C) pads in declaration order; the default
\* representation orders these fields by alignment, padding only the end.
SizeOf(attrs, fields) ==
    IF HasAttr(attrs, Packed) THEN SumSizes(fields)
    ELSE IF HasAttr(attrs, ReprC) THEN RoundUp(CEnd(fields, 0), MaxAlign(fields))
    ELSE RoundUp(SumSizes(fields), MaxAlign(fields))

OfKind(tokens, k) == SelectSeq(tokens, LAMBDA t : t.kind = k)

\* A path naming the structure without generic arguments is accepted when
\* the structure has no parameters or only lifetime parameters (elided).
NeedsGenericArgs(gen) == gen = <<TypeParam>> \/ gen = <<ConstParam>>

BuildOk         == [status |-> "ok", error |-> ""]
BuildFailed(e)  == [status |-> "failed", error |-> e]
NotBuilt        == [status |-> "none", error |-> ""]

\* Compilation of what one expansion returned: a compile_error! fails with
\* its text; otherwise the declaration after the check is compiled and the
\* constant's initialiser is type-checked and evaluated.
Rustc(out) ==
    IF out[1].kind = "compile_error" THEN BuildFailed(out[1].text)
    ELSE LET chk    == out[1]
             decl   == Rest(out, 1)
             idents == OfKind(decl, "ident")
             gen    == OfKind(decl, "generics")
             fields == OfKind(decl, "braces")[1].types
             sz     == SizeOf(OfKind(decl, "attr"), fields)
             holds  == IF chk.op = "==" THEN sz = chk.rhs ELSE sz <= chk.rhs
         IN  IF idents = <<>> \/ idents[1].text # chk.ty
             THEN BuildFailed("cannot find type " \o chk.ty)
             ELSE IF NeedsGenericArgs(gen)
             THEN BuildFailed("missing generics for struct " \o chk.ty)
             ELSE IF holds THEN BuildOk ELSE BuildFailed(chk.message)

\* Names the compiled output binds for its checks.
CheckBindings(out) ==
    LET cs == OfKind(out, "const_assert")
    IN  [i \in 1 .. Len(cs) |-> cs[i].binding]

\* -------------------------------------------------------------- state machine
VARIABLES
    macro,        \* the attribute being expanded: "assert_size" or "assert_size_fits"
    attr,         \* the attribute's argument tokens
    item,         \* the annotated item's tokens
    pc,           \* position in the macro function, or "compiled" after the build
    size,         \* the local `size` (NoSize before it is assigned)
    struct_item,  \* the local `struct_item` (NoStruct before it is assigned)
    output,       \* the TokenStream returned (<<>> before the return)
    build,        \* the compiler's verdict on the returned tokens
    scope         \* binding names of the checks compiled into the scope so far

vars == <<macro, attr, item, pc, size, struct_item, output, build, scope>>

Macros == {"assert_size", "assert_size_fits"}

Init ==
    /\ macro = "assert_size"
    /\ attr = <<>>
    /\ item = <<>>
    /\ pc = "idle"
    /\ size = NoSize
    /\ struct_item = NoStruct
    /\ output = <<>>
    /\ build = NotBuilt
    /\ scope = <<>>

\* The compiler meets an annotated item and calls the attribute's function.
Invoke ==
    /\ pc = "idle"
    /\ Len(scope) < MaxExpansions
    /\ \E m \in Macros, in \in Inputs :
          /\ macro' = m
          /\ attr' = in[1]
          /\ item' = in[2]
    /\ pc' = "parse_attr"
    /\ size' = NoSize
    /\ struct_item' = NoStruct
    /\ output' = <<>>
    /\ build' = NotBuilt
    /\ UNCHANGED scope

\* Variant: the function carries on after an Err.
AttrErrorIgnored(r) == FALSE

\* parse_macro_input! returns from the function when the parse is an Err.
AttrErrorReturns(r) == ~r.ok

\* let size = parse_macro_input!(attr as ExpSize); let size = size.size;
\* (lib.rs:79-80, 152-153)
ParseAttrStep ==
    /\ pc = "parse_attr"
    /\ LET r == ParseAttr(attr)
       IN  /\ size' = r.size
           /\ IF AttrErrorReturns(r)
              THEN /\ output' = <<CompileError("attr", r.err)>>
                   /\ pc' = "returned"
              ELSE /\ output' = output
                   /\ pc' = "parse_item"
    /\ UNCHANGED <<macro, attr, item, struct_item, build, scope>>

\* let struct_item = parse_macro_input!(item as ItemStruct);
\* (lib.rs:82, 155)
ParseItemStep ==
    /\ pc = "parse_item"
    /\ LET r == ParseItemStruct(item)
       IN  /\ struct_item' = r
           /\ IF ~r.ok
              THEN /\ output' = <<CompileError("item", r.err)>>
                   /\ pc' = "returned"
              ELSE /\ output' = output
                   /\ pc' = "emit"
    /\ UNCHANGED <<macro, attr, item, size, build, scope>>

\* id, message, quote!, TokenStream::from(checker) (lib.rs:83-92, 156-165)
EmitStep ==
    /\ pc = "emit"
    /\ output' = IF macro = "assert_size"
                 THEN AssertSizeQuote(struct_item, size)
                 ELSE AssertSizeFitsQuote(struct_item, size)
    /\ pc' = "returned"
    /\ UNCHANGED <<macro, attr, item, size, struct_item, build, scope>>

MacroStep == ParseAttrStep \/ ParseItemStep \/ EmitStep

\* pub fn assert_size (lib.rs:78-93)
assert_size == macro = "assert_size" /\ MacroStep

\* pub fn assert_size_fits (lib.rs:151-166)
assert_size_fits == macro = "assert_size_fits" /\ MacroStep

\* The compiler compiles the returned tokens in the scope of the item.
Compile ==
    /\ pc = "returned"
    /\ build' = Rustc(output)
    /\ scope' = scope \o CheckBindings(output)
    /\ pc' = "compiled"
    /\ UNCHANGED <<macro, attr, item, size, struct_item, output>>

\* The invocation's tokens and verdict are dropped; the compiler goes on to
\* the next item of the scope.
NextItem ==
    /\ pc = "compiled"
    /\ macro' = "assert_size"
    /\ attr' = <<>>
    /\ item' = <<>>
    /\ pc' = "idle"
    /\ size' = NoSize
    /\ struct_item' = NoStruct
    /\ output' = <<>>
    /\ build' = NotBuilt
    /\ UNCHANGED scope

Next == Invoke \/ assert_size \/ assert_size_fits \/ Compile \/ NextItem

Spec == Init /\ [][Next]_vars

\* ---------------------------------------------- the invocation's inputs, read
\* directly off the tokens (not through the macro's parsers)
RECURSIVE DigitsValue(_, _)
DigitsValue(ds, acc) ==
    IF ds = <<>> THEN acc ELSE DigitsValue(Tail(ds), acc * 10 + Head(ds))

Invoked      == pc # "idle"
Returned     == pc \in {"returned", "compiled"}
Compiled     == pc = "compiled"

OneIntLit    == Len(attr) = 1 /\ attr[1].kind = "int"
ArgValue     == DigitsValue(attr[1].digits, 0)

ArgEmpty     == attr = <<>>
ArgManyToks  == Len(attr) > 1
ArgNonInt    == Len(attr) >= 1 /\ attr[1].kind # "int"
ArgNegative  == Len(attr) >= 2 /\ attr[1].kind = "minus" /\ attr[2].kind = "int"
ArgOverflow  == OneIntLit /\ ArgValue > UsizeMax
Malformed    == ArgEmpty \/ ArgManyToks \/ ArgNonInt \/ ArgNegative \/ ArgOverflow

\* A valid argument: one integer literal in usize range, unsuffixed or usize.
ValidArg     == OneIntLit /\ ArgValue <= UsizeMax /\ attr[1].suffix \in {"", "usize"}

ItemKeyword  == OfKind(item, "keyword")[1].text
IsStructItem == ItemKeyword = "struct"
ItemName     == OfKind(item, "ident")[1].text
ItemGenerics == OfKind(item, "generics")
TrueSize     == SizeOf(OfKind(item, "attr"), OfKind(item, "braces")[1].types)

Expanded     == Returned /\ output[1].kind = "const_assert"
IsDiag(span) == Len(output) = 1 /\ output[1].kind = "compile_error" /\ output[1].span = span
MalformedArgument == IsDiag("attr")
NotAStruct        == IsDiag("item")
NoAssertion  == OfKind(output, "const_assert") = <<>>

\* --------------------------------------------------------------------- claims

\* C1: with assert_size on a structure S and a valid argument N, the build of
\* the emitted unit fails if and only if size(S) differs from N.
C1_ExactSizeIff ==
    (Compiled /\ macro = "assert_size" /\ IsStructItem /\ ValidArg)
        => ((build.status = "failed") <=> (TrueSize # ArgValue))

\* C2: with assert_size_fits on a structure S and a valid argument M, the
\* build of the emitted unit fails only when size(S) > M, and every size at
\* or below M is accepted.
C2_FitsOnlyWhenLarger ==
    (Compiled /\ macro = "assert_size_fits" /\ IsStructItem /\ ValidArg)
        => ((build.status = "failed") <=> (TrueSize > ArgValue))

\* C3: the failure text of the emitted assertion is built from the
\* structure's name and the same value the assertion compares against:
\* "size of '<Name>' is not <N> bytes" for assert_size and
\* "'<Name>' does not fit in <N> bytes" for assert_size_fits, N in decimal.
C3_MessageText ==
    Expanded =>
        LET chk == output[1]
        IN  /\ chk.rhs = ArgValue
            /\ chk.ty = ItemName
            /\ macro = "assert_size" =>
                 chk.message = "size of '" \o ItemName \o "' is not " \o ToDec(ArgValue) \o " bytes"
            /\ macro = "assert_size_fits" =>
                 chk.message = "'" \o ItemName \o "' does not fit in " \o ToDec(ArgValue) \o " bytes"
            /\ (macro = "assert_size" /\ ItemName = "A" /\ ArgValue = 24) =>
                 chk.message = "size of 'A' is not 24 bytes"
            /\ (macro = "assert_size_fits" /\ ItemName = "C" /\ ArgValue = 16) =>
                 chk.message = "'C' does not fit in 16 bytes"

C3_Witness ==
    /\ Expanded /\ macro = "assert_size" /\ ItemName = "A" /\ ArgValue = 24
    /\ output[1].message = "size of 'A' is not 24 bytes"

\* C4: for both macros, an argument that is empty, has more than one token,
\* has a non-integer token, is negative or overflows usize makes the parse
\* fail with the MalformedArgument diagnostic; no size is produced and no
\* assertion is emitted.
C4_MalformedArgument ==
    (Invoked /\ Malformed) =>
        /\ pc \in {"parse_attr", "returned", "compiled"}
        /\ size = NoSize
        /\ Returned => (MalformedArgument /\ NoAssertion)
        /\ Compiled => build.status = "failed"

C4_Witness ==
    /\ pc = "returned" /\ macro = "assert_size_fits"
    /\ ArgOverflow /\ MalformedArgument /\ size = NoSize

\* C5 (as stated): attached to an item that is not a structure, expansion
\* fails with the NotAStruct diagnostic and no assertion is emitted.
C5_Original ==
    (Returned /\ ~IsStructItem) => (NotAStruct /\ NoAssertion)

\* C5 (amended): attached to an item that is not a structure, expansion
\* fails with one diagnostic and no assertion is emitted; the diagnostic is
\* NotAStruct when the argument is well-formed and MalformedArgument when
\* the argument is malformed as well.
C5_Amended ==
    (Returned /\ ~IsStructItem) =>
        /\ NoAssertion
        /\ ~Malformed => NotAStruct
        /\ Malformed => MalformedArgument
        /\ Compiled => build.status = "failed"

C5_Witness ==
    pc = "returned" /\ ItemKeyword = "enum" /\ ~Malformed /\ NotAStruct

\* C6: on a successful expansion the output is the injected check followed
\* by the original declaration, every token of it unchanged, once, and
\* nothing else.
C6_DeclarationPreserved ==
    Expanded =>
        /\ Len(output) = Len(item) + 1
        /\ Rest(output, 1) = item
        /\ Len(OfKind(output, "const_assert")) = 1

C6_Witness ==
    /\ Expanded /\ Rest(output, 1) = item
    /\ HasAttr(item, Doc) /\ HasAttr(item, Pub) /\ ItemGenerics = <<LifetimeParam>>
    /\ Len(OfKind(item, "braces")[1].types) > 2

\* C7: the injected check is bound to `_`: after any number of expansions in
\* one scope no check has introduced a name, and no two checks' names collide.
C7_NoLeakage ==
    /\ \A i \in 1 .. Len(scope) : scope[i] = "_"
    /\ \A i, j \in 1 .. Len(scope) : (i # j /\ scope[i] = scope[j]) => scope[i] = "_"
    /\ Expanded =>
         /\ output[1].binding = "_"
         /\ {t.text : t \in {output[k] : k \in 2 .. Len(output)} \cap {Ident(n) : n \in Names}}
              = {ItemName}

C7_Witness ==
    Compiled /\ Len(scope) = MaxExpansions /\ Expanded

\* C8: the success guarantee covers structures with generic parameters: when
\* size(S) = N (or size(S) <= M) the emitted check compiles and the build
\* succeeds.
C8_GenericsSucceed ==
    (Compiled /\ IsStructItem /\ ValidArg /\ ItemGenerics # <<>>
       /\ IF macro = "assert_size" THEN TrueSize = ArgValue ELSE TrueSize <= ArgValue)
        => build.status = "ok"

\* C9: a size is produced only for exactly one integer literal that is
\* unsuffixed or suffixed usize and non-negative, and the size equals the
\* literal's value.
C9_OnlyCompatibleLiteral ==
    size # NoSize =>
        /\ OneIntLit
        /\ attr[1].suffix \in {"", "usize"}
        /\ size = ArgValue

\* C10: an invocation runs parse argument, parse item, emit in that order
\* with no retry; the item is parsed only after the argument was accepted,
\* so a malformed argument is the diagnostic reported even when the item is
\* not a structure; an assertion is emitted only after both parses
\* succeeded; the invocation ends with an emitted unit or one diagnostic.
C10_Order ==
    /\ pc = "parse_attr" => pc' \in {"parse_item", "returned"}
    /\ pc = "parse_item" => pc' \in {"emit", "returned"}
    /\ pc = "emit" => pc' = "returned"
    /\ pc = "returned" => pc' = "compiled"
    /\ pc \in {"parse_attr", "parse_item", "emit"} =>
          (macro' = macro /\ attr' = attr /\ item' = item)

C10_State ==
    /\ struct_item # NoStruct => size # NoSize
    /\ pc \in {"parse_item", "emit"} => size # NoSize
    /\ pc = "emit" => struct_item.ok
    /\ (Returned /\ Malformed) => (MalformedArgument /\ struct_item = NoStruct)
    /\ Expanded => (size # NoSize /\ struct_item.ok)
    /\ Returned => \/ Len(output) = 1 /\ output[1].kind = "compile_error"
                   \/ Expanded /\ Len(OfKind(output, "const_assert")) = 1
                               /\ OfKind(output, "compile_error") = <<>>

C10_Progress == pc \in {"parse_attr", "parse_item", "emit"} => ENABLED MacroStep

C10_StraightLine == [](C10_State /\ C10_Progress) /\ [][C10_Order]_vars

C10_Witness ==
    pc = "returned" /\ Malformed /\ ~IsStructItem /\ MalformedArgument
       /\ struct_item = NoStruct

====
